---- MODULE Spec2Model ----
(***************************************************************************)
(* Sidecar supervisor of the OniOS Tauri shell                             *)
(* (apps/onios/tauri/src-tauri/src/main.rs).                               *)
(*                                                                         *)
(* The main thread runs main(): in a production build it calls             *)
(* start_node_server() (resolve the script, spawn `node`, store the handle *)
(* and the port, poll the health endpoint), then builds the GUI and enters *)
(* the event loop.  The event loop dispatches window-destroyed events      *)
(* (stop_node_server) and front-end invocations (get_server_port) to       *)
(* handler threads.  The handler closure and the command are Send + Sync,  *)
(* and the statics are Mutex-guarded, so handlers may run concurrently.    *)
(*                                                                         *)
(* No thread can panic while it holds one of the two mutexes, so neither   *)
(* mutex is ever poisoned: lock() always yields Ok once the lock is free.  *)
(*                                                                         *)
(* Time is counted in milliseconds.  It advances only in the two blocking  *)
(* operations of the poll loop: thread::sleep (at least 300 ms) and the    *)
(* blocking HTTP GET.                                                      *)
(***************************************************************************)
EXTENDS Integers, FiniteSets, Sequences, TLC

(* ---- bounds of the model ---- *)
NumWorkers == 2        \* handler threads of the event loop
MaxWindows == 2        \* window-destroyed events delivered in one run
MaxInvokes == 2        \* get_server_port invocations in one run
MaxChildren == 2       \* size of the OS process table kept for spawned children
MaxOversleepMs == 300  \* thread::sleep may return this much late
MaxGetMs == 600        \* a blocking GET takes between 0 and this long
MaxStarts == 2         \* start_node_server calls a direct caller makes

(* ---- program constants ---- *)
DefaultPort == 5173    \* static SERVER_PORT initial value
portOffByOne == 5173 + 1 \* start writes another port than the default
port == 5173           \* let port: u16 = 5173
TimeoutMs == 15000     \* Duration::from_secs(15)
SleepMs == 300         \* Duration::from_millis(300)

(* ---- encodings ---- *)
None == 0              \* Option::None in the handle slot; children are 1..MaxChildren
Free == -1             \* a mutex nobody holds
MainThread == 0        \* the thread that runs main()

Workers == 1..NumWorkers
Threads == {MainThread} \cup Workers
Children == 1..MaxChildren

DevScript == "../../electron/server.mjs"
ResourcesRel == "../Resources/bin/server.mjs"
BinRel == "bin/server.mjs"

\* directories the running executable can be in
ExeDirs == {"/Applications/OniOS.app/Contents/MacOS", "/opt/onios"}

\* Path::join of a directory and a relative path
Join(dir, rel) == dir \o "/" \o rel

VARIABLES
    debug_assertions,  \* cfg!(debug_assertions): TRUE in a development build
    pc,                \* position of every thread
    SERVER_PROCESS,    \* static Mutex<Option<Child>>: None or the tracked child
    SERVER_PORT,       \* static Mutex<u16>
    procLock,          \* holder of the SERVER_PROCESS mutex, or Free
    portLock,          \* holder of the SERVER_PORT mutex, or Free
    proc,              \* OS view of each spawned child: unborn, alive, exited, reaped
    exe_dir,           \* where the running executable is when start resolves the script
    resources_exists,  \* whether <exe_dir>/../Resources/bin/server.mjs exists then
    server_script,     \* start_node_server: resolved script path ("" before)
    exeRes,            \* start_node_server: result of current_exe() ("none" before)
    spawnRes,          \* start_node_server: result of Command::spawn() ("none" before)
    child,             \* start_node_server: the local `child` (None before spawn)
    elapsed,           \* start_node_server: start.elapsed() in ms
    polls,             \* start_node_server: health GETs issued so far
    resp,              \* start_node_server: outcome of the last health GET
    result,            \* what start_node_server returned to main ("none" before)
    target,            \* stop_node_server: per thread, the child bound by `ref mut child`
    killRes,           \* stop_node_server: per thread, result of child.kill()
    waitRes,           \* stop_node_server: per thread, result of child.wait()
    got,               \* get_server_port: per thread, last value returned (0 before)
    destroyed,         \* window-destroyed events delivered so far
    stops,             \* stop_node_server calls that have returned
    invokes,           \* get_server_port invocations delivered so far
    starts             \* start_node_server calls made so far

vars == <<debug_assertions, pc, SERVER_PROCESS, SERVER_PORT, procLock, portLock,
          proc, server_script, exeRes, spawnRes, child, elapsed, polls, resp, result, target,
          killRes, waitRes, got, destroyed, stops, invokes, exe_dir,
          resources_exists, starts>>

startLocals == <<exe_dir, resources_exists, server_script, exeRes, spawnRes, child, elapsed, polls, resp>>
stopLocals == <<target, killRes, waitRes>>
statics == <<SERVER_PROCESS, SERVER_PORT>>
locks == <<procLock, portLock>>
counters == <<destroyed, stops, invokes>>

(***************************************************************************)
(* Pure helpers                                                            *)
(***************************************************************************)

\* the two production candidates taken in the wrong order
ResolveScriptSwapped(debug, dir, resourcesExists) ==
    IF debug THEN DevScript
    ELSE IF resourcesExists THEN Join(dir, BinRel) ELSE Join(dir, ResourcesRel)

\* lines 20-37: the script path chosen by start_node_server
ResolveScript(debug, dir, resourcesExists) ==
    IF debug THEN DevScript
    ELSE IF resourcesExists THEN Join(dir, ResourcesRel) ELSE Join(dir, BinRel)

\* the loop condition written with <= instead of <
WithinBudgetInclusive(e) == e <= TimeoutMs

\* line 56: the loop condition
WithinBudget(e) == e < TimeoutMs

\* readiness decided on Ok(resp) alone, the status is not looked at
IsReadyAnyResponse(r) == r # "refused"

\* line 59: resp.status().is_success(), on the outcome of the GET
IsReady(r) == r = "success"

\* durations thread::sleep(300 ms) can take
SleepDurations == {SleepMs, SleepMs + MaxOversleepMs}

\* durations of one blocking GET
GetDurations == {0, MaxGetMs}

\* outcomes of one GET: Err(_), Ok(non-2xx), Ok(2xx)
GetOutcomes == {"refused", "non_success", "success"}

\* a child id not yet used by spawn
FreshChild == CHOOSE c \in Children : proc[c] = "unborn"

Init ==
    /\ debug_assertions \in BOOLEAN
    /\ pc = [t \in Threads |-> IF t = MainThread THEN "main" ELSE "idle"]
    /\ SERVER_PROCESS = None
    /\ SERVER_PORT = DefaultPort
    /\ procLock = Free
    /\ portLock = Free
    /\ proc = [c \in Children |-> "unborn"]
    /\ exe_dir = ""
    /\ resources_exists = FALSE
    /\ server_script = ""
    /\ exeRes = "none"
    /\ spawnRes = "none"
    /\ child = None
    /\ elapsed = 0
    /\ polls = 0
    /\ resp = "none"
    /\ result = "none"
    /\ target = [t \in Workers |-> None]
    /\ killRes = [t \in Workers |-> "none"]
    /\ waitRes = [t \in Workers |-> "none"]
    /\ got = [t \in Workers |-> 0]
    /\ destroyed = 0
    /\ stops = 0
    /\ invokes = 0
    /\ starts = 0

Goto(t, l) == pc' = [pc EXCEPT ![t] = l]
At(t, l) == pc[t] = l

(***************************************************************************)
(* main(), lines 86-108, and start_node_server(), lines 14-67, both on the *)
(* main thread                                                             *)
(***************************************************************************)

\* lines 88-91, production build: use_sidecar is true, start_node_server is called
MainStartSidecar ==
    /\ At(MainThread, "main")
    /\ ~debug_assertions
    /\ starts' = starts + 1
    /\ Goto(MainThread, "resolve")
    /\ UNCHANGED <<debug_assertions, statics, locks, proc, startLocals, result,
                   stopLocals, got, counters>>

\* use_sidecar is true in every build
MainAlwaysSidecar ==
    /\ At(MainThread, "main")
    /\ debug_assertions
    /\ starts' = starts + 1
    /\ Goto(MainThread, "resolve")
    /\ UNCHANGED <<debug_assertions, statics, locks, proc, startLocals, result,
                   stopLocals, got, counters>>

\* lines 88-90, development build: the sidecar is skipped
MainSkipSidecar ==
    /\ At(MainThread, "main")
    /\ debug_assertions
    /\ Goto(MainThread, "builder")
    /\ UNCHANGED <<debug_assertions, statics, locks, proc, startLocals, result,
                   stopLocals, got, counters, starts>>

\* lines 25-26: current_exe() fails, the `?` returns its error text
ResolveErr ==
    /\ At(MainThread, "resolve")
    /\ ~debug_assertions
    /\ exeRes' = "Err"
    /\ result' = "ErrExe"
    /\ Goto(MainThread, "start_ret")
    /\ UNCHANGED <<debug_assertions, statics, locks, proc, exe_dir, resources_exists,
                   server_script, spawnRes,
                   child, elapsed, polls, resp, stopLocals, got, counters, starts>>

\* lines 20-39: the script path is chosen
ResolveOk ==
    /\ At(MainThread, "resolve")
    /\ \E dir \in ExeDirs, resourcesExists \in BOOLEAN :
          /\ exe_dir' = dir
          /\ resources_exists' = resourcesExists
          /\ server_script' = ResolveScript(debug_assertions, dir, resourcesExists)
    /\ exeRes' = IF debug_assertions THEN "none" ELSE "Ok"
    /\ Goto(MainThread, "spawn")
    /\ UNCHANGED <<debug_assertions, statics, locks, proc, spawnRes, child, elapsed,
                   polls, resp, result, stopLocals, got, counters, starts>>

\* the spawn error is dropped and start goes on to store and poll
SpawnErrIgnored ==
    /\ At(MainThread, "spawn")
    /\ spawnRes' = "Err"
    /\ Goto(MainThread, "lock_proc")
    /\ UNCHANGED <<debug_assertions, statics, locks, proc, exe_dir, resources_exists,
                   server_script, exeRes,
                   child, elapsed, polls, resp, result, stopLocals, got, counters,
                   starts>>

\* lines 41-47: spawn() fails, the `?` returns "Failed to start Node server: ..."
SpawnErr ==
    /\ At(MainThread, "spawn")
    /\ spawnRes' = "Err"
    /\ result' = "ErrSpawn"
    /\ Goto(MainThread, "start_ret")
    /\ UNCHANGED <<debug_assertions, statics, locks, proc, exe_dir, resources_exists,
                   server_script, exeRes,
                   child, elapsed, polls, resp, stopLocals, got, counters, starts>>

\* lines 41-47: spawn() succeeds, a new child process runs; the path locals are
\* not read after this statement
SpawnOk ==
    /\ At(MainThread, "spawn")
    /\ \E c \in Children : proc[c] = "unborn"
    /\ spawnRes' = "Ok"
    /\ child' = FreshChild
    /\ proc' = [proc EXCEPT ![FreshChild] = "alive"]
    /\ exe_dir' = ""
    /\ resources_exists' = FALSE
    /\ server_script' = ""
    /\ Goto(MainThread, "lock_proc")
    /\ UNCHANGED <<debug_assertions, statics, locks, exeRes, elapsed, polls, resp,
                   result, stopLocals, got, counters, starts>>

\* line 49: SERVER_PROCESS.lock().unwrap()
LockProc ==
    /\ At(MainThread, "lock_proc")
    /\ procLock = Free
    /\ procLock' = MainThread
    /\ Goto(MainThread, "store_proc")
    /\ UNCHANGED <<debug_assertions, statics, portLock, proc, startLocals, result,
                   stopLocals, got, counters, starts>>

\* the guard is bound to a variable and lives to the end of the function
ProcGuardKept == MainThread

\* line 49: the holder of the process mutex once the statement has ended
ProcGuardAfterStore == Free

\* a tracked child is killed and reaped before the slot is overwritten
StoreProcStopsPrevious ==
    /\ At(MainThread, "store_proc")
    /\ SERVER_PROCESS' = child
    /\ child' = None
    /\ proc' = IF SERVER_PROCESS = None THEN proc
               ELSE [proc EXCEPT ![SERVER_PROCESS] = "reaped"]
    /\ procLock' = Free
    /\ Goto(MainThread, "lock_port")
    /\ UNCHANGED <<debug_assertions, SERVER_PORT, portLock, exe_dir, resources_exists,
                   server_script, exeRes, spawnRes, elapsed, polls, resp, result,
                   stopLocals, got, counters, starts>>

\* the handle is dropped instead of being stored
StoreProcDropsChild ==
    /\ At(MainThread, "store_proc")
    /\ SERVER_PROCESS' = None
    /\ child' = None
    /\ procLock' = Free
    /\ Goto(MainThread, "lock_port")
    /\ UNCHANGED <<debug_assertions, SERVER_PORT, portLock, proc, exe_dir,
                   resources_exists, server_script, exeRes,
                   spawnRes, elapsed, polls, resp, result, stopLocals, got, counters,
                   starts>>

\* line 49: *guard = Some(child) moves the local into the slot; the temporary
\* guard is dropped with the statement
StoreProc ==
    /\ At(MainThread, "store_proc")
    /\ SERVER_PROCESS' = child
    /\ child' = None
    /\ procLock' = ProcGuardAfterStore
    /\ Goto(MainThread, "lock_port")
    /\ UNCHANGED <<debug_assertions, SERVER_PORT, portLock, proc, exe_dir,
                   resources_exists, server_script, exeRes,
                   spawnRes, elapsed, polls, resp, result, stopLocals, got, counters,
                   starts>>

\* line 50: SERVER_PORT.lock().unwrap()
LockPort ==
    /\ At(MainThread, "lock_port")
    /\ portLock = Free
    /\ portLock' = MainThread
    /\ Goto(MainThread, "store_port")
    /\ UNCHANGED <<debug_assertions, statics, procLock, proc, startLocals, result,
                   stopLocals, got, counters, starts>>

\* the loop probes first and sleeps afterwards
StorePortProbesFirst ==
    /\ At(MainThread, "store_port")
    /\ SERVER_PORT' = port
    /\ portLock' = Free
    /\ elapsed' = 0
    /\ Goto(MainThread, "probe")
    /\ UNCHANGED <<debug_assertions, SERVER_PROCESS, procLock, proc, exe_dir,
                   resources_exists, server_script, exeRes, spawnRes, child, polls,
                   resp, result, stopLocals, got, counters, starts>>

\* lines 50-54: *guard = port; the guard is dropped; start = Instant::now()
StorePort ==
    /\ At(MainThread, "store_port")
    /\ SERVER_PORT' = port
    /\ portLock' = Free
    /\ elapsed' = 0
    /\ Goto(MainThread, "loop_test")
    /\ UNCHANGED <<debug_assertions, SERVER_PROCESS, procLock, proc, exe_dir,
                   resources_exists, server_script,
                   exeRes, spawnRes, child, polls, resp, result, stopLocals, got,
                   counters, starts>>

\* line 56: the budget has not elapsed, another cycle begins
LoopEnter ==
    /\ At(MainThread, "loop_test")
    /\ WithinBudget(elapsed)
    /\ Goto(MainThread, "sleep")
    /\ UNCHANGED <<debug_assertions, statics, locks, proc, startLocals, result,
                   stopLocals, got, counters, starts>>

\* on timeout the child is killed, reaped and dropped from the slot
LoopTimeoutKillsChild ==
    /\ At(MainThread, "loop_test")
    /\ ~WithinBudget(elapsed)
    /\ result' = "ErrTimeout"
    /\ proc' = IF SERVER_PROCESS = None THEN proc
               ELSE [proc EXCEPT ![SERVER_PROCESS] = "reaped"]
    /\ SERVER_PROCESS' = None
    /\ Goto(MainThread, "start_ret")
    /\ UNCHANGED <<debug_assertions, SERVER_PORT, locks, startLocals, stopLocals,
                   got, counters, starts>>

\* lines 56, 66: the budget has elapsed, Err("... did not become ready ...")
LoopTimeout ==
    /\ At(MainThread, "loop_test")
    /\ ~WithinBudget(elapsed)
    /\ result' = "ErrTimeout"
    /\ Goto(MainThread, "start_ret")
    /\ UNCHANGED <<debug_assertions, statics, locks, proc, startLocals, stopLocals,
                   got, counters, starts>>

\* line 57: thread::sleep(300 ms) returns
Sleep ==
    /\ At(MainThread, "sleep")
    /\ \E d \in SleepDurations : elapsed' = elapsed + d
    /\ Goto(MainThread, "probe")
    /\ UNCHANGED <<debug_assertions, statics, locks, proc, exe_dir, resources_exists,
                   server_script, exeRes,
                   spawnRes, child, polls, resp, result, stopLocals, got, counters,
                   starts>>

\* after the GET the child is looked at (try_wait) and an exited child is an error
ProbeChecksChild ==
    /\ At(MainThread, "probe")
    /\ \E d \in GetDurations, r \in GetOutcomes :
          /\ elapsed' = elapsed + d
          /\ resp' = r
          /\ IF proc[SERVER_PROCESS] # "alive"
                THEN result' = "ErrSpawn" /\ Goto(MainThread, "start_ret")
                ELSE IF IsReady(r)
                        THEN result' = "Ok" /\ Goto(MainThread, "start_ret")
                        ELSE result' = result /\ Goto(MainThread, "loop_test")
    /\ polls' = polls + 1
    /\ UNCHANGED <<debug_assertions, statics, locks, proc, exe_dir, resources_exists,
                   server_script, exeRes, spawnRes, child, stopLocals, got, counters,
                   starts>>

\* lines 58-63: the blocking GET returns; a success status returns Ok(port)
Probe ==
    /\ At(MainThread, "probe")
    /\ \E d \in GetDurations, r \in GetOutcomes :
          /\ elapsed' = elapsed + d
          /\ resp' = r
          /\ IF IsReady(r)
                THEN result' = "Ok" /\ Goto(MainThread, "start_ret")
                ELSE result' = result /\ Goto(MainThread, "loop_test")
    /\ polls' = polls + 1
    /\ UNCHANGED <<debug_assertions, statics, locks, proc, exe_dir, resources_exists,
                   server_script, exeRes,
                   spawnRes, child, stopLocals, got, counters, starts>>

\* the error of start_node_server ends the application (as `.expect()` would)
StartReturnFatal ==
    /\ At(MainThread, "start_ret")
    /\ exe_dir' = ""
    /\ resources_exists' = FALSE
    /\ server_script' = ""
    /\ exeRes' = "none"
    /\ spawnRes' = "none"
    /\ child' = None
    /\ elapsed' = 0
    /\ polls' = 0
    /\ resp' = "none"
    /\ Goto(MainThread, IF result = "Ok" THEN "builder" ELSE "done")
    /\ UNCHANGED <<debug_assertions, statics, locks, proc, result, stopLocals, got,
                   counters, starts>>

\* lines 91-94: main logs the result and goes on; start's locals are gone
StartReturn ==
    /\ At(MainThread, "start_ret")
    /\ exe_dir' = ""
    /\ resources_exists' = FALSE
    /\ server_script' = ""
    /\ exeRes' = "none"
    /\ spawnRes' = "none"
    /\ child' = None
    /\ elapsed' = 0
    /\ polls' = 0
    /\ resp' = "none"
    /\ Goto(MainThread, "builder")
    /\ UNCHANGED <<debug_assertions, statics, locks, proc, result, stopLocals, got,
                   counters, starts>>

\* lines 97-106: the builder registers the command and the window-event handler,
\* run() enters the event loop
BuilderRun ==
    /\ At(MainThread, "builder")
    /\ Goto(MainThread, "run")
    /\ UNCHANGED <<debug_assertions, statics, locks, proc, startLocals, result,
                   stopLocals, got, counters, starts>>

\* lines 106-107: the event loop ends and the application exits
AppExit ==
    /\ At(MainThread, "run")
    /\ \A t \in Workers : At(t, "idle")
    /\ Goto(MainThread, "done")
    /\ UNCHANGED <<debug_assertions, statics, locks, proc, startLocals, result,
                   stopLocals, got, counters, starts>>

(***************************************************************************)
(* stop_node_server(), lines 70-79, run by the window-event handler        *)
(***************************************************************************)

\* the handler is live before main has reached the event loop
WindowDestroyedAnytime(t) ==
    /\ At(t, "idle")
    /\ destroyed < MaxWindows
    /\ destroyed' = destroyed + 1
    /\ Goto(t, "stop_lock")
    /\ UNCHANGED <<debug_assertions, statics, locks, proc, startLocals, result,
                   stopLocals, got, stops, invokes, starts>>

\* lines 101-103: a WindowEvent::Destroyed reaches the handler
WindowDestroyed(t) ==
    /\ At(MainThread, "run")
    /\ At(t, "idle")
    /\ destroyed < MaxWindows
    /\ destroyed' = destroyed + 1
    /\ Goto(t, "stop_lock")
    /\ UNCHANGED <<debug_assertions, statics, locks, proc, startLocals, result,
                   stopLocals, got, stops, invokes, starts>>

\* line 71: if let Ok(mut guard) = SERVER_PROCESS.lock()
StopLock(t) ==
    /\ At(t, "stop_lock")
    /\ procLock = Free
    /\ procLock' = t
    /\ Goto(t, "stop_test")
    /\ UNCHANGED <<debug_assertions, statics, portLock, proc, startLocals, result,
                   stopLocals, got, counters, starts>>

\* the guard is dropped as soon as the slot has been read
StopSomeUnlocks(t) ==
    /\ At(t, "stop_test")
    /\ SERVER_PROCESS # None
    /\ target' = [target EXCEPT ![t] = SERVER_PROCESS]
    /\ procLock' = Free
    /\ Goto(t, "stop_kill")
    /\ UNCHANGED <<debug_assertions, statics, portLock, proc, startLocals, result,
                   killRes, waitRes, got, counters, starts>>

\* line 72: if let Some(ref mut child) = *guard, a child is tracked
StopSome(t) ==
    /\ At(t, "stop_test")
    /\ SERVER_PROCESS # None
    /\ target' = [target EXCEPT ![t] = SERVER_PROCESS]
    /\ Goto(t, "stop_kill")
    /\ UNCHANGED <<debug_assertions, statics, locks, proc, startLocals, result,
                   killRes, waitRes, got, counters, starts>>

\* line 72: the slot is None, the body of the if is skipped
StopNone(t) ==
    /\ At(t, "stop_test")
    /\ SERVER_PROCESS = None
    /\ Goto(t, "stop_clear")
    /\ UNCHANGED <<debug_assertions, statics, locks, proc, startLocals, result,
                   stopLocals, got, counters, starts>>

\* line 74: let _ = child.kill(); Ok sends SIGKILL, Err leaves the child as it is
StopKill(t) ==
    /\ At(t, "stop_kill")
    /\ \E r \in {"Ok", "Err"} :
          /\ killRes' = [killRes EXCEPT ![t] = r]
          /\ proc' = IF r = "Ok" /\ proc[target[t]] = "alive"
                        THEN [proc EXCEPT ![target[t]] = "exited"]
                        ELSE proc
    /\ Goto(t, "stop_wait")
    /\ UNCHANGED <<debug_assertions, statics, locks, startLocals, result, target,
                   waitRes, got, counters, starts>>

\* line 75: let _ = child.wait(); Ok blocks until the child has exited and reaps it
StopWaitOk(t) ==
    /\ At(t, "stop_wait")
    /\ proc[target[t]] # "alive"
    /\ waitRes' = [waitRes EXCEPT ![t] = "Ok"]
    /\ proc' = [proc EXCEPT ![target[t]] = "reaped"]
    /\ Goto(t, "stop_clear")
    /\ UNCHANGED <<debug_assertions, statics, locks, startLocals, result, target,
                   killRes, got, counters, starts>>

\* line 75: child.wait() fails, the error is dropped
StopWaitErr(t) ==
    /\ At(t, "stop_wait")
    /\ waitRes' = [waitRes EXCEPT ![t] = "Err"]
    /\ Goto(t, "stop_clear")
    /\ UNCHANGED <<debug_assertions, statics, locks, proc, startLocals, result,
                   target, killRes, got, counters, starts>>

\* the slot is cleared only when the kill succeeded
SlotAfterStopIfKilled(k, w) == IF k = "Err" THEN 1 ELSE None

\* line 77: the value written to the slot after the kill and the wait
SlotAfterStop(k, w) == None

\* stop also resets the stored port
StopClearResetsPort(t) ==
    /\ At(t, "stop_clear")
    /\ SERVER_PROCESS' = None
    /\ SERVER_PORT' = 0
    /\ procLock' = Free
    /\ Goto(t, "stop_ret")
    /\ UNCHANGED <<debug_assertions, portLock, proc, startLocals, result, stopLocals,
                   got, counters, starts>>

\* the guard is dropped but the slot is not cleared
StopClearKeepsSlot(t) ==
    /\ At(t, "stop_clear")
    /\ procLock' = Free
    /\ Goto(t, "stop_ret")
    /\ UNCHANGED <<debug_assertions, statics, portLock, proc, startLocals, result,
                   stopLocals, got, counters, starts>>

\* lines 77-78: *guard = None; the guard is dropped
StopClear(t) ==
    /\ At(t, "stop_clear")
    /\ SERVER_PROCESS' = IF SlotAfterStop(killRes[t], waitRes[t]) = None
                            THEN None ELSE SERVER_PROCESS
    /\ procLock' = Free
    /\ Goto(t, "stop_ret")
    /\ UNCHANGED <<debug_assertions, SERVER_PORT, portLock, proc, startLocals, result,
                   stopLocals, got, counters, starts>>

\* line 79: stop_node_server returns to the handler, its locals are gone
StopReturn(t) ==
    /\ At(t, "stop_ret")
    /\ target' = [target EXCEPT ![t] = None]
    /\ killRes' = [killRes EXCEPT ![t] = "none"]
    /\ waitRes' = [waitRes EXCEPT ![t] = "none"]
    /\ stops' = stops + 1
    /\ Goto(t, "idle")
    /\ UNCHANGED <<debug_assertions, statics, locks, proc, startLocals, result, got,
                   destroyed, invokes, starts>>

(***************************************************************************)
(* get_server_port(), lines 81-84, invoked by the front-end                *)
(***************************************************************************)

\* line 100: the front-end invokes the command
Invoke(t) ==
    /\ At(MainThread, "run")
    /\ At(t, "idle")
    /\ invokes < MaxInvokes
    /\ invokes' = invokes + 1
    /\ Goto(t, "get_lock")
    /\ UNCHANGED <<debug_assertions, statics, locks, proc, startLocals, result,
                   stopLocals, got, destroyed, stops, starts>>

\* line 83: SERVER_PORT.lock().unwrap()
GetLock(t) ==
    /\ At(t, "get_lock")
    /\ portLock = Free
    /\ portLock' = t
    /\ Goto(t, "get_read")
    /\ UNCHANGED <<debug_assertions, statics, procLock, proc, startLocals, result,
                   stopLocals, got, counters, starts>>

\* line 83: the value under the guard is returned, the guard is dropped
GetRead(t) ==
    /\ At(t, "get_read")
    /\ got' = [got EXCEPT ![t] = SERVER_PORT]
    /\ portLock' = Free
    /\ Goto(t, "idle")
    /\ UNCHANGED <<debug_assertions, statics, procLock, proc, startLocals, result,
                   stopLocals, counters, starts>>

(***************************************************************************)
(* Environment                                                             *)
(***************************************************************************)

\* a spawned child exits on its own (crash, bind failure, normal exit)
ChildExits(c) ==
    /\ proc[c] = "alive"
    /\ proc' = [proc EXCEPT ![c] = "exited"]
    /\ UNCHANGED <<debug_assertions, pc, statics, locks, startLocals, result,
                   stopLocals, got, counters, starts>>

start_node_server ==
    \/ ResolveErr \/ ResolveOk \/ SpawnErr \/ SpawnOk
    \/ LockProc \/ StoreProc \/ LockPort \/ StorePort
    \/ LoopEnter \/ LoopTimeout \/ Sleep \/ Probe

stop_node_server(t) ==
    \/ StopLock(t) \/ StopSome(t) \/ StopNone(t) \/ StopKill(t)
    \/ StopWaitOk(t) \/ StopWaitErr(t) \/ StopClear(t) \/ StopReturn(t)

get_server_port(t) == GetLock(t) \/ GetRead(t)

main ==
    \/ MainStartSidecar \/ MainSkipSidecar \/ StartReturn \/ BuilderRun \/ AppExit

Next ==
    \/ MainStartSidecar
    \/ MainSkipSidecar
    \/ ResolveErr
    \/ ResolveOk
    \/ SpawnErr
    \/ SpawnOk
    \/ LockProc
    \/ StoreProc
    \/ LockPort
    \/ StorePort
    \/ LoopEnter
    \/ LoopTimeout
    \/ Sleep
    \/ Probe
    \/ StartReturn
    \/ BuilderRun
    \/ AppExit
    \/ \E t \in Workers : WindowDestroyed(t)
    \/ \E t \in Workers : StopLock(t)
    \/ \E t \in Workers : StopSome(t)
    \/ \E t \in Workers : StopNone(t)
    \/ \E t \in Workers : StopKill(t)
    \/ \E t \in Workers : StopWaitOk(t)
    \/ \E t \in Workers : StopWaitErr(t)
    \/ \E t \in Workers : StopClear(t)
    \/ \E t \in Workers : StopReturn(t)
    \/ \E t \in Workers : Invoke(t)
    \/ \E t \in Workers : GetLock(t)
    \/ \E t \in Workers : GetRead(t)
    \/ \E c \in Children : ChildExits(c)

Spec == Init /\ [][Next]_vars

\* the main thread and every handler thread keep running; the environment
\* (events, invocations, the child's own exit) is under no obligation
MainStep == start_node_server \/ StartReturn \/ BuilderRun \/ MainStartSidecar \/ MainSkipSidecar

FairSpec == Spec /\ WF_vars(MainStep)

(***************************************************************************)
(* start_node_server and stop_node_server called directly, one call after  *)
(* the other, in either build: the functions outside the call pattern of   *)
(* main().  The caller is the main thread at "main"; a stop runs on a      *)
(* handler thread while the caller waits.                                  *)
(***************************************************************************)

\* lines 14-15: a caller enters start_node_server
CallStart ==
    /\ At(MainThread, "main")
    /\ \A t \in Workers : At(t, "idle")
    /\ starts < MaxStarts
    /\ \E c \in Children : proc[c] = "unborn"
    /\ starts' = starts + 1
    /\ result' = "none"
    /\ Goto(MainThread, "resolve")
    /\ UNCHANGED <<debug_assertions, statics, locks, proc, startLocals, stopLocals,
                   got, counters>>

\* lines 61, 66: start_node_server returns to its caller, its locals are gone
CallReturn ==
    /\ At(MainThread, "start_ret")
    /\ exe_dir' = ""
    /\ resources_exists' = FALSE
    /\ server_script' = ""
    /\ exeRes' = "none"
    /\ spawnRes' = "none"
    /\ child' = None
    /\ elapsed' = 0
    /\ polls' = 0
    /\ resp' = "none"
    /\ Goto(MainThread, "main")
    /\ UNCHANGED <<debug_assertions, statics, locks, proc, result, stopLocals, got,
                   counters, starts>>

\* line 70: a caller enters stop_node_server
CallStop(t) ==
    /\ At(MainThread, "main")
    /\ \A u \in Workers : At(u, "idle")
    /\ destroyed < MaxWindows
    /\ destroyed' = destroyed + 1
    /\ Goto(t, "stop_lock")
    /\ UNCHANGED <<debug_assertions, statics, locks, proc, startLocals, result,
                   stopLocals, got, stops, invokes, starts>>

NextCalls ==
    \/ CallStart
    \/ ResolveErr
    \/ ResolveOk
    \/ SpawnErr
    \/ SpawnOk
    \/ LockProc
    \/ StoreProc
    \/ LockPort
    \/ StorePort
    \/ LoopEnter
    \/ LoopTimeout
    \/ Sleep
    \/ Probe
    \/ CallReturn
    \/ \E t \in Workers : CallStop(t)
    \/ \E t \in Workers : StopLock(t)
    \/ \E t \in Workers : StopSome(t)
    \/ \E t \in Workers : StopNone(t)
    \/ \E t \in Workers : StopKill(t)
    \/ \E t \in Workers : StopWaitOk(t)
    \/ \E t \in Workers : StopWaitErr(t)
    \/ \E t \in Workers : StopClear(t)
    \/ \E t \in Workers : StopReturn(t)
    \/ \E c \in Children : ChildExits(c)

SpecCalls == Init /\ [][NextCalls]_vars

TypeOK ==
    /\ debug_assertions \in BOOLEAN
    /\ SERVER_PROCESS \in {None} \cup Children
    /\ SERVER_PORT \in 0..65535
    /\ procLock \in {Free} \cup Threads
    /\ portLock \in {Free} \cup Threads
    /\ proc \in [Children -> {"unborn", "alive", "exited", "reaped"}]
    /\ child \in {None} \cup Children
    /\ elapsed \in Nat
    /\ polls \in Nat
    /\ resp \in {"none"} \cup GetOutcomes
    /\ result \in {"none", "Ok", "ErrExe", "ErrSpawn", "ErrTimeout"}

(***************************************************************************)
(* Properties                                                              *)
(***************************************************************************)

StartReturned == At(MainThread, "start_ret")
InPollLoop == pc[MainThread] \in {"loop_test", "sleep", "probe"}
LiveChildren == {c \in Children : proc[c] = "alive"}

\* C1: when current_exe() or spawn() fails, start_node_server returns an error
\* from that same call: no sleep, no probe, no spawned process, and the
\* tracked-handle slot is still None.
C1_SpawnFailureReturnsAtOnce ==
    (exeRes = "Err" \/ spawnRes = "Err") =>
        /\ StartReturned
        /\ result = (IF exeRes = "Err" THEN "ErrExe" ELSE "ErrSpawn")
        /\ polls = 0
        /\ elapsed = 0
        /\ resp = "none"
        /\ SERVER_PROCESS = None
        /\ LiveChildren = {}

C1_Witness == StartReturned /\ spawnRes = "Err" /\ result = "ErrSpawn"

\* C2: at the moment start_node_server returns Ok (the probe that got the
\* success status), the slot holds a child, that child is alive, and the stored
\* port is the returned port.
C2_SuccessHoldsLiveChild ==
    [][(At(MainThread, "probe") /\ result' = "Ok") =>
          /\ SERVER_PROCESS' # None
          /\ proc[SERVER_PROCESS] = "alive"
          /\ proc'[SERVER_PROCESS'] = "alive"
          /\ SERVER_PORT' = port
          /\ resp' = "success"]_vars

\* the most probes one call can issue: every cycle takes at least SleepMs
MaxPolls == TimeoutMs \div SleepMs

\* the longest one poll cycle (one sleep, one GET) can take
MaxCycleMs == SleepMs + MaxOversleepMs + MaxGetMs

\* C3 as stated: when start_node_server returns the readiness-timeout error, the
\* budget has elapsed by at most one 300 ms poll interval.
C3_TimeoutWithinOneInterval ==
    (StartReturned /\ result = "ErrTimeout") =>
        /\ elapsed >= TimeoutMs
        /\ elapsed <= TimeoutMs + SleepMs

\* C3 amended: the poll loop always ends; without a success status it ends with
\* the readiness-timeout error, after at most MaxPolls probes, not before the
\* budget has elapsed and less than one whole poll cycle (one sleep plus one
\* blocking GET) after it.
C3_PollLoopTerminates ==
    /\ [](InPollLoop => polls <= MaxPolls /\ elapsed < TimeoutMs + MaxCycleMs)
    /\ []((StartReturned /\ result = "ErrTimeout") =>
            /\ resp \in {"refused", "non_success"}
            /\ polls >= 1
            /\ polls <= MaxPolls
            /\ elapsed >= TimeoutMs
            /\ elapsed < TimeoutMs + MaxCycleMs)
    /\ []((StartReturned /\ spawnRes = "Ok" /\ resp # "success") =>
            result = "ErrTimeout")
    /\ (InPollLoop ~> StartReturned)

C3_Witness ==
    /\ StartReturned
    /\ result = "ErrTimeout"
    /\ polls = MaxPolls
    /\ elapsed = TimeoutMs

\* C4 as stated: when a stop_node_server that found a tracked child after a
\* successful start returns, that child is no longer alive and the slot is None,
\* whatever kill() and wait() returned.
C4_StopLeavesChildDead ==
    \A t \in Workers :
        (At(t, "stop_ret") /\ result = "Ok" /\ target[t] # None) =>
            /\ proc[target[t]] # "alive"
            /\ SERVER_PROCESS = None

\* C4 amended: when such a stop_node_server returns, the slot is None and the
\* mutex is released whatever kill() and wait() returned; the child is no
\* longer alive if the kill or the wait succeeded, and reaped if the wait
\* succeeded.  stop_node_server has no error result: after a failed kill or
\* wait it still goes on to clear the slot and return.
C4_StopClearsSlot ==
    /\ [](\A t \in Workers :
            (At(t, "stop_ret") /\ result = "Ok" /\ target[t] # None) =>
                /\ SERVER_PROCESS = None
                /\ procLock # t
                /\ killRes[t] \in {"Ok", "Err"}
                /\ waitRes[t] \in {"Ok", "Err"}
                /\ (killRes[t] = "Ok" \/ waitRes[t] = "Ok") => proc[target[t]] # "alive"
                /\ (waitRes[t] = "Ok") => proc[target[t]] = "reaped")
    /\ [][\A t \in Workers :
            /\ (At(t, "stop_kill") /\ pc'[t] # pc[t]) => pc'[t] = "stop_wait"
            /\ (At(t, "stop_wait") /\ pc'[t] # pc[t]) => pc'[t] = "stop_clear"
            /\ (At(t, "stop_clear") /\ pc'[t] # pc[t]) =>
                    pc'[t] = "stop_ret" /\ SERVER_PROCESS' = None]_vars

C4_Witness ==
    \E t \in Workers :
        /\ At(t, "stop_ret")
        /\ result = "Ok"
        /\ target[t] # None
        /\ killRes[t] = "Err"
        /\ waitRes[t] = "Ok"
        /\ SERVER_PROCESS = None

\* a stop_node_server call that found the slot empty
FoundNone(t) ==
    \/ At(t, "stop_test") /\ SERVER_PROCESS = None
    \/ pc[t] \in {"stop_clear", "stop_ret"} /\ target[t] = None

\* C5: a stop_node_server call that finds the slot None issues no kill and no
\* wait and leaves the slot, the port and every process as they are; once one
\* stop has returned the slot stays None, so a second stop is such a call.
C5_StopIdempotent ==
    /\ [](stops >= 1 => SERVER_PROCESS = None)
    /\ [](\A t \in Workers :
            (At(t, "stop_ret") /\ target[t] = None) =>
                /\ killRes[t] = "none"
                /\ waitRes[t] = "none"
                /\ SERVER_PROCESS = None)
    /\ [][\A t \in Workers :
            (FoundNone(t) /\ pc'[t] # pc[t]) =>
                /\ pc'[t] \in {"stop_clear", "stop_ret", "idle"}
                /\ SERVER_PROCESS' = SERVER_PROCESS
                /\ SERVER_PORT' = SERVER_PORT
                /\ proc' = proc
                /\ killRes'[t] = "none"
                /\ waitRes'[t] = "none"]_vars

C5_Witness ==
    \E t \in Workers :
        /\ At(t, "stop_ret")
        /\ target[t] = None
        /\ stops >= 1
        /\ result = "Ok"
        /\ SERVER_PROCESS = None

\* C6: the stored port is 5173 in every reachable state, and every value
\* get_server_port has returned is 5173.
C6_PortAlwaysDefault ==
    /\ SERVER_PORT = 5173
    /\ \A t \in Workers : got[t] \in {0, 5173}

C6_Witness ==
    \E t \in Workers :
        /\ got[t] = 5173
        /\ result = "Ok"
        /\ stops >= 1

\* C7: start_node_server returns Ok exactly when the last probe of its loop got
\* a success status; a refused connection or a non-success status sends the
\* loop back to its budget test, and while the budget has not elapsed the
\* budget test starts another cycle.
C7_SuccessIffReadyProbe ==
    /\ [](StartReturned => (result = "Ok" <=> resp = "success"))
    /\ [](InPollLoop => resp # "success")
    /\ [][(At(MainThread, "probe") /\ resp' \in {"refused", "non_success"}
              /\ pc'[MainThread] # "probe")
            => pc'[MainThread] = "loop_test" /\ result' = "none"]_vars
    /\ [][(At(MainThread, "loop_test") /\ elapsed < TimeoutMs
              /\ pc'[MainThread] # "loop_test")
            => pc'[MainThread] = "sleep"]_vars

C7_Witness ==
    /\ StartReturned
    /\ result = "Ok"
    /\ resp = "success"
    /\ polls >= 2

\* C8: the main thread holds the process mutex only inside the statement of
\* line 49 and the port mutex only inside the statement of line 50; it holds
\* neither while it tests the budget, sleeps or performs the health GET.
C8_NoLockAcrossPoll ==
    /\ (procLock = MainThread) => At(MainThread, "store_proc")
    /\ (portLock = MainThread) => At(MainThread, "store_port")
    /\ InPollLoop => (procLock = Free /\ portLock = Free)

C8_Witness ==
    /\ At(MainThread, "probe")
    /\ polls >= 1
    /\ SERVER_PROCESS # None
    /\ procLock = Free
    /\ portLock = Free

\* C9 as stated: at most one spawned child is alive, and every live spawned
\* child is the one the supervisor holds (in the slot, or in the local of
\* start_node_server between the spawn and the store).
C9_LiveChildIsTracked ==
    /\ Cardinality(LiveChildren) <= 1
    /\ \A c \in LiveChildren : SERVER_PROCESS = c \/ child = c

\* C9 amended: at most one child is ever spawned and at most one is alive;
\* until a stop_node_server has cleared the slot every live spawned child is
\* the one the supervisor holds; the slot lets go of a child that stays alive
\* only in a stop_node_server whose kill and wait both failed.
C9_AtMostOneLiveChild ==
    /\ [](Cardinality(LiveChildren) <= 1)
    /\ [](Cardinality({c \in Children : proc[c] # "unborn"}) <= 1)
    /\ []((stops = 0 /\ \A t \in Workers : ~At(t, "stop_ret")) =>
            \A c \in LiveChildren : SERVER_PROCESS = c \/ child = c)
    /\ [][\A c \in Children :
            (SERVER_PROCESS = c /\ SERVER_PROCESS' # c /\ proc'[c] = "alive") =>
                \E t \in Workers :
                    /\ At(t, "stop_clear")
                    /\ target[t] = c
                    /\ killRes[t] = "Err"
                    /\ waitRes[t] = "Err"]_vars

C9_Witness ==
    /\ At(MainThread, "run")
    /\ SERVER_PROCESS # None
    /\ LiveChildren = {SERVER_PROCESS}
    /\ destroyed = 0

\* the lifecycle state of the supervisor
Phase ==
    IF At(MainThread, "main") THEN "NotStarted"
    ELSE IF pc[MainThread] \in {"resolve", "spawn", "lock_proc", "store_proc",
                                "lock_port", "store_port", "loop_test", "sleep",
                                "probe"} THEN "Starting"
    ELSE IF result = "none" THEN "NotStarted"
    ELSE IF stops >= 1 THEN "Stopped"
    ELSE IF result = "Ok" THEN "Ready"
    ELSE "Failed"

PhaseEdges ==
    {<<"NotStarted", "Starting">>, <<"Starting", "Ready">>, <<"Starting", "Failed">>,
     <<"Ready", "Stopped">>, <<"Failed", "Stopped">>}

\* C10: the lifecycle moves only along NotStarted -> Starting -> Ready | Failed
\* -> Stopped; Starting is entered only in a production build, only before the
\* event loop has delivered anything, and never again once it was left; in a
\* development build start_node_server is never entered and nothing is spawned.
C10_Lifecycle ==
    /\ [][Phase' # Phase => <<Phase, Phase'>> \in PhaseEdges]_vars
    /\ [](Phase = "Starting" =>
            /\ ~debug_assertions
            /\ destroyed = 0
            /\ invokes = 0
            /\ \A t \in Workers : At(t, "idle"))
    /\ [](debug_assertions =>
            /\ Phase = "NotStarted"
            /\ result = "none"
            /\ spawnRes = "none"
            /\ \A c \in Children : proc[c] = "unborn")

C10_Witness ==
    /\ Phase = "Stopped"
    /\ result = "Ok"
    /\ At(MainThread, "done")

StartFailed == result \in {"ErrExe", "ErrSpawn", "ErrTimeout"}

\* C11: a failed start_node_server does not end the application: main goes on
\* to the builder and reaches the event loop; there get_server_port can still
\* be invoked and returns the default port, and a window-destroyed event can
\* still be delivered and makes its handler enter stop_node_server.
C11_FailedStartNonFatal ==
    /\ [][(StartReturned /\ StartFailed /\ pc'[MainThread] # "start_ret")
            => pc'[MainThread] = "builder"]_vars
    /\ ((StartReturned /\ StartFailed) ~> At(MainThread, "run"))
    /\ [](\A t \in Workers :
            (StartFailed /\ At(MainThread, "run") /\ At(t, "idle")) =>
                /\ (invokes < MaxInvokes => ENABLED Invoke(t))
                /\ (destroyed < MaxWindows => ENABLED WindowDestroyed(t)))
    /\ [](StartFailed => \A t \in Workers : got[t] \in {0, DefaultPort})
    /\ [][(StartFailed /\ destroyed' # destroyed) =>
            \E t \in Workers : At(t, "idle") /\ pc'[t] = "stop_lock"]_vars

C11_Witness ==
    /\ result = "ErrTimeout"
    /\ stops >= 1
    /\ \E t \in Workers : got[t] = DefaultPort

\* C12: the script handed to spawn is, in a development build, the fixed
\* relative path wherever the executable is; in a production build it is
\* <exe_dir>/../Resources/bin/server.mjs when that path exists and
\* <exe_dir>/bin/server.mjs otherwise, and no third candidate is ever chosen.
C12_PathResolution ==
    /\ [](At(MainThread, "spawn") =>
            /\ exe_dir \in ExeDirs
            /\ debug_assertions => server_script = "../../electron/server.mjs"
            /\ (~debug_assertions /\ resources_exists) =>
                  server_script = exe_dir \o "/../Resources/bin/server.mjs"
            /\ (~debug_assertions /\ ~resources_exists) =>
                  server_script = exe_dir \o "/bin/server.mjs")
    /\ [][(At(MainThread, "resolve") /\ pc'[MainThread] # "resolve"
              /\ exeRes' # "Err") => pc'[MainThread] = "spawn"]_vars

C12_Witness ==
    /\ At(MainThread, "spawn")
    /\ ~debug_assertions
    /\ ~resources_exists
    /\ server_script = "/opt/onios/bin/server.mjs"

StopLabels == {"stop_lock", "stop_test", "stop_kill", "stop_wait", "stop_clear", "stop_ret"}
GetLabels == {"get_lock", "get_read"}

\* C13: a step of get_server_port changes neither the slot, nor the port, nor
\* any process; a step of stop_node_server never changes the port; the slot
\* changes only in the store of start_node_server and the clear of
\* stop_node_server, the port only in the store of start_node_server.
C13_OnlyStartAndStopWrite ==
    /\ [][\A t \in Workers :
            (pc[t] \in GetLabels /\ pc'[t] # pc[t]) =>
                /\ SERVER_PROCESS' = SERVER_PROCESS
                /\ SERVER_PORT' = SERVER_PORT
                /\ proc' = proc]_vars
    /\ [][\A t \in Workers :
            (pc[t] \in StopLabels /\ pc'[t] # pc[t]) => SERVER_PORT' = SERVER_PORT]_vars
    /\ [][SERVER_PROCESS' # SERVER_PROCESS =>
            \/ At(MainThread, "store_proc") /\ pc'[MainThread] = "lock_port"
            \/ \E t \in Workers : At(t, "stop_clear") /\ pc'[t] = "stop_ret"]_vars
    /\ [][SERVER_PORT' # SERVER_PORT =>
            At(MainThread, "store_port") /\ pc'[MainThread] = "loop_test"]_vars

C13_Witness ==
    \E t \in Workers, u \in Workers :
        /\ At(t, "stop_ret")
        /\ target[t] # None
        /\ At(u, "get_read")
        /\ got[u] = DefaultPort
        /\ SERVER_PORT = DefaultPort

\* C14: when start_node_server stores a new handle while the slot still holds a
\* child, the slot is overwritten and no process changes: the previous child is
\* neither killed nor waited on.  From then on it is not in the slot, and a
\* child that is not in the slot changes only by exiting on its own: no
\* stop_node_server kills or reaps it.
C14_RestartOrphansPrevious ==
    /\ [][(At(MainThread, "store_proc") /\ pc'[MainThread] = "lock_port"
              /\ SERVER_PROCESS # None) =>
                /\ SERVER_PROCESS' = child
                /\ SERVER_PROCESS' # SERVER_PROCESS
                /\ proc' = proc]_vars
    /\ [][\A c \in Children :
            (proc'[c] # proc[c] /\ SERVER_PROCESS # c) =>
                \/ proc[c] = "unborn" /\ proc'[c] = "alive" /\ At(MainThread, "spawn")
                \/ proc[c] = "alive" /\ proc'[c] = "exited" /\ pc' = pc]_vars
    /\ [](\A t \in Workers :
            pc[t] \in {"stop_kill", "stop_wait"} => target[t] = SERVER_PROCESS)

C14_Witness ==
    /\ At(MainThread, "main")
    /\ starts = 2
    /\ stops >= 1
    /\ SERVER_PROCESS = None
    /\ proc[1] = "alive"
    /\ proc[2] = "reaped"

\* the step in which start_node_server gives up on readiness
TimeoutStep == At(MainThread, "loop_test") /\ pc'[MainThread] = "start_ret"

\* C15 as stated: the timeout return leaves the child tracked and untouched, and
\* once a stop_node_server has returned after it no spawned child is alive.
C15_TimeoutChildDeadAfterStop ==
    /\ [][TimeoutStep =>
            /\ SERVER_PROCESS # None
            /\ SERVER_PROCESS' = SERVER_PROCESS
            /\ proc' = proc]_vars
    /\ []((result = "ErrTimeout" /\ stops >= 1) => LiveChildren = {})

\* C15 amended: the timeout return leaves the child tracked and untouched; it
\* stays in the slot until a stop_node_server clears it; the only step of the
\* program that ends a live child is the kill of a stop_node_server; when that
\* stop returns no spawned child is alive provided its kill or its wait
\* succeeded.
C15_TimeoutLeavesChildToStop ==
    /\ [][TimeoutStep =>
            /\ SERVER_PROCESS # None
            /\ SERVER_PROCESS' = SERVER_PROCESS
            /\ proc' = proc]_vars
    /\ []((result = "ErrTimeout" /\ stops = 0 /\ \A t \in Workers : ~At(t, "stop_ret"))
            => SERVER_PROCESS # None)
    /\ [][\A c \in Children :
            (proc[c] = "alive" /\ proc'[c] # "alive" /\ pc' # pc) =>
                \E t \in Workers :
                    At(t, "stop_kill") /\ pc'[t] = "stop_wait" /\ target[t] = c]_vars
    /\ [](\A t \in Workers :
            (result = "ErrTimeout" /\ At(t, "stop_ret") /\ target[t] # None
                /\ (killRes[t] = "Ok" \/ waitRes[t] = "Ok")) => LiveChildren = {})

C15_Witness ==
    \E t \in Workers :
        /\ result = "ErrTimeout"
        /\ At(t, "stop_ret")
        /\ target[t] # None
        /\ killRes[t] = "Ok"
        /\ waitRes[t] = "Ok"
        /\ proc[target[t]] = "reaped"
        /\ LiveChildren = {}

\* C16: the poll loop never looks at the child.  With the tracked child no
\* longer alive, the budget test still starts another cycle while the budget
\* has not elapsed, a probe without a success status still goes back to the
\* budget test, and a probe with a success status still returns Ok; the exit
\* of the child moves nothing in start_node_server, whose only results after a
\* successful spawn are Ok and the readiness timeout.
C16_PollIgnoresChildLiveness ==
    /\ [](InPollLoop => SERVER_PROCESS # None)
    /\ [][(At(MainThread, "probe") /\ pc'[MainThread] # "probe"
              /\ proc[SERVER_PROCESS] # "alive") =>
                /\ proc' = proc
                /\ SERVER_PROCESS' = SERVER_PROCESS
                /\ IF resp' = "success"
                      THEN pc'[MainThread] = "start_ret" /\ result' = "Ok"
                      ELSE pc'[MainThread] = "loop_test" /\ result' = "none"]_vars
    /\ [][(At(MainThread, "loop_test") /\ pc'[MainThread] # "loop_test"
              /\ proc[SERVER_PROCESS] # "alive") =>
                (pc'[MainThread] = "sleep" <=> elapsed < TimeoutMs)]_vars
    /\ [][(InPollLoop /\ proc' # proc) =>
            /\ pc' = pc
            /\ result' = result
            /\ startLocals' = startLocals
            /\ SERVER_PROCESS' = SERVER_PROCESS]_vars
    /\ []((StartReturned /\ spawnRes = "Ok") => result \in {"Ok", "ErrTimeout"})

C16_Witness ==
    /\ StartReturned
    /\ result = "Ok"
    /\ polls >= 2
    /\ SERVER_PROCESS # None
    /\ proc[SERVER_PROCESS] = "exited"

\* C17: every probe, the first included, comes after a sleep of its own; the
\* budget is tested before the sleep only; a call that spawned its child issues
\* at least one and at most 50 probes; a probe issued after the budget has
\* elapsed still returns Ok when it gets a success status.
C17_SleepBeforeEveryProbe ==
    /\ [](At(MainThread, "probe") => elapsed >= SleepMs * (polls + 1))
    /\ [](pc[MainThread] \in {"loop_test", "sleep"} => elapsed >= SleepMs * polls)
    /\ [](At(MainThread, "sleep") => elapsed < TimeoutMs)
    /\ []((StartReturned /\ spawnRes = "Ok") => (polls >= 1 /\ polls <= 50))
    /\ [][(At(MainThread, "sleep") /\ pc'[MainThread] # "sleep") =>
            pc'[MainThread] = "probe" /\ elapsed' >= elapsed + SleepMs]_vars
    /\ [][(At(MainThread, "probe") /\ pc'[MainThread] # "probe"
              /\ elapsed >= TimeoutMs /\ resp' = "success") =>
                pc'[MainThread] = "start_ret" /\ result' = "Ok"]_vars

C17_Witness ==
    /\ StartReturned
    /\ result = "Ok"
    /\ elapsed > TimeoutMs + MaxGetMs

BeforeEventLoop ==
    pc[MainThread] \in {"main", "resolve", "spawn", "lock_proc", "store_proc",
                        "lock_port", "store_port", "loop_test", "sleep", "probe",
                        "start_ret", "builder"}

\* C18: until main has entered the event loop no window-destroyed event has
\* been delivered and no handler thread has left idle, so no step of
\* stop_node_server falls between the spawn and the return of
\* start_node_server; a thread inside stop_node_server implies that main is in
\* the event loop.
C18_StopNeverInterleavesStart ==
    /\ [](BeforeEventLoop =>
            /\ destroyed = 0
            /\ stops = 0
            /\ \A t \in Workers : At(t, "idle"))
    /\ [](\A t \in Workers : pc[t] \in StopLabels => At(MainThread, "run"))
    /\ [][destroyed' # destroyed => At(MainThread, "run")]_vars

C18_Witness ==
    \E t \in Workers :
        /\ At(t, "stop_kill")
        /\ At(MainThread, "run")
        /\ result = "ErrTimeout"
        /\ target[t] = SERVER_PROCESS

StopLocked == {"stop_test", "stop_kill", "stop_wait", "stop_clear"}

\* C19: a thread holds the process mutex from the test of the slot through the
\* kill, the wait and the clear; so at most one stop_node_server ever takes the
\* child (the others find the slot None), no child is killed or waited on by
\* two calls; stop_node_server never holds the port mutex, which only a thread
\* reading the port holds, so a get_server_port waiting for it can take it
\* while a stop is in progress.
C19_StopHoldsLockThroughout ==
    /\ [](\A t \in Workers : pc[t] \in StopLocked <=> procLock = t)
    /\ [](Cardinality({t \in Workers : target[t] # None}) <= 1)
    /\ [][\A t \in Workers :
            (At(t, "stop_test") /\ pc'[t] = "stop_kill") =>
                /\ stops = 0
                /\ \A u \in Workers \ {t} : target[u] = None /\ ~At(u, "stop_ret")]_vars
    /\ [][\A t \in Workers :
            (At(t, "stop_test") /\ pc'[t] # "stop_test"
                /\ (stops >= 1 \/ \E u \in Workers : At(u, "stop_ret"))) =>
                    pc'[t] = "stop_clear" /\ target'[t] = None]_vars
    /\ [](\A t \in Workers : portLock = t => At(t, "get_read"))
    /\ [](\A u \in Workers :
            (At(u, "get_lock") /\ portLock = Free) => ENABLED GetLock(u))

C19_Witness ==
    \E t \in Workers, u \in Workers :
        /\ t # u
        /\ At(t, "stop_ret")
        /\ target[t] # None
        /\ killRes[t] = "Ok"
        /\ At(u, "stop_ret")
        /\ target[u] = None
        /\ killRes[u] = "none"

====
